---- MODULE Spec2Model ----
(***************************************************************************)
(* Model of the pattern-submission pipeline of moayadiorg/patterns.        *)
(*                                                                         *)
(* PatternValidator (validate-pattern.js, kept in                          *)
(* src/patterns/pattern-template/implementation/handler.js, lines 453-815):*)
(* one validation run is the sequence of the four steps of validate()      *)
(* followed by its summary; the entry directory, the file system and the   *)
(* file contents are the inputs, drawn in Init.                            *)
(*                                                                         *)
(* ReviewerNotifier (notify-reviewers.js, kept in src/unnamed/part_001,    *)
(* lines 1-292): one action per method.                                    *)
(***************************************************************************)
EXTENDS Integers, Sequences, FiniteSets, TLC

VARIABLES
    patternDir,   \* argument of validate(): sequence of path segments, each a sequence of characters
    yamlFile,     \* <patternDir>/pattern.yaml on disk: [kind, size]
    readmeFile,   \* <patternDir>/README.md on disk: [kind, size]
    diagramsDir,  \* <patternDir>/diagrams on disk: [kind, size]
    yamlContent,  \* what yaml.load makes of pattern.yaml's text: [ok, data]
    schemaFile,   \* <repoRoot>/schemas/pattern-schema.json: "missing", "invalid" or "ok"
    readmeContent,\* text of README.md: [len, mentions]
    errors,       \* this.errors
    warnings,     \* this.warnings
    console,      \* everything written by this.log, in order
    pc,           \* position inside validate()
    result,       \* value returned by validate(); "none" until it returns
    patterns,          \* ReviewerNotifier.patterns
    allReviewers,      \* ReviewerNotifier.allReviewers, a Set in insertion order
    categoryReviewers, \* ReviewerNotifier.categoryReviewers, a Map in insertion order
    commentCalls,      \* what generateComment returned, call after call, since the last processPatterns
    output,            \* what generateOutput returned; kind "none" until it is called
    ghOutput,          \* lines appended to the file named by GITHUB_OUTPUT
    envSet,            \* process.env.GITHUB_OUTPUT is set
    prevRun,           \* directories and report of the previous notifier of this process history
    passedDirs,        \* the directories passed to processPatterns so far, in order
    changed,           \* the paths that differ between the base and the head revision
    headDirs,          \* the directories of the working tree at the head revision
    step,              \* position of the change detection script
    CHANGED_FILES,     \* the lines that git diff printed
    PATTERN_DIRS,      \* the lines left by the filters
    VALID_PATTERN_DIRS, \* the words that are directories
    detectOutput,      \* lines that the script appended to $GITHUB_OUTPUT
    exitStatus,        \* exit status of the script, Running until it ends
    gitStatus,         \* status of the last git command of the script
    argv,              \* what main() of validate-pattern.js is given as its argument
    exitCode,          \* exit code of validate-pattern.js, Running until it exits
    runs               \* number of calls of validate on the PatternValidator instance

processVars == <<argv, exitCode, runs>>

validatorVars == <<patternDir, yamlFile, readmeFile, diagramsDir, yamlContent, schemaFile,
                   readmeContent, errors, warnings, console, pc, result, processVars>>

notifierVars == <<patterns, allReviewers, categoryReviewers, commentCalls, output, ghOutput,
                  envSet, prevRun, passedDirs>>

detectorVars == <<changed, headDirs, step, CHANGED_FILES, PATTERN_DIRS, VALID_PATTERN_DIRS,
                  detectOutput, exitStatus, gitStatus>>

vars == <<validatorVars, notifierVars, detectorVars>>

inputs == <<patternDir, yamlFile, readmeFile, diagramsDir, yamlContent, schemaFile,
            readmeContent>>

(***************************************************************************)
(* Bounds of the model.                                                    *)
(***************************************************************************)
MaxNameLen == 4
MaxSnippets == 2
MaxPatterns == 2
MaxCommentCalls == 2
MaxChanged == 2
MaxRuns == 2

(***************************************************************************)
(* Sequence helpers.                                                       *)
(***************************************************************************)
SeqsUpTo(S, n) == UNION {[1..k -> S] : k \in 0..n}

Range(s) == {s[i] : i \in 1..Len(s)}

(***************************************************************************)
(* Logging: error() and warning() push on their array and log; success()   *)
(* only logs.  A message is [level, msg, arg]; arg holds the interpolated  *)
(* values.                                                                 *)
(***************************************************************************)
Msg(level, msg, arg) == [level |-> level, msg |-> msg, arg |-> arg]

ErrorsOf(events) == LET IsError(e) == e.level = "error" IN SelectSeq(events, IsError)
WarningsOf(events) == LET IsWarning(e) == e.level = "warning" IN SelectSeq(events, IsWarning)

(***************************************************************************)
(* File system primitives.                                                 *)
(***************************************************************************)
DirStatSize == 4096

ExistsSync(f) == f.kind # "missing"
StatSize(f) == f.size
IsDirectory(f) == f.kind = "dir"

Missing == [kind |-> "missing", size |-> 0]
EmptyFile == [kind |-> "file", size |-> 0]
PlainFile == [kind |-> "file", size |-> 10]
\* a directory's stat size depends on the file system: 0 on some, a block on others
Dirs == {[kind |-> "dir", size |-> s] : s \in {0, DirStatSize}}
Dir == [kind |-> "dir", size |-> DirStatSize]

\* files that exist below the entry directory, besides the three required items
entryFiles == {"diagrams/architecture.png", "implementation/handler.js"}

\* directories that exist below the entry directory
entryDirs == {"diagrams/drafts.png"}

InDiagrams(p) == p \in {"diagrams/architecture.png", "diagrams/missing.png", "diagrams/drafts.png"}

\* fs.existsSync(path.join(patternDir, p)): true of a file and of a directory alike; what
\* lies below diagrams/ needs the directory
PathExists(p, dd) == p \in entryFiles \cup entryDirs /\ (InDiagrams(p) => IsDirectory(dd))

(***************************************************************************)
(* Step 1: validatePatternId.                                              *)
(***************************************************************************)
LowerAlnum == {"a", "0"}

Basename(dir) == IF dir = <<>> THEN <<>> ELSE dir[Len(dir)]

\* /^[a-z0-9]+(?:-[a-z0-9]+)*$/ as an automaton: q = "start" before the first
\* character, "run" inside [a-z0-9]+, "hyphen" right after a hyphen
RECURSIVE RegexRun(_, _, _)
RegexRun(s, i, q) ==
    IF i > Len(s) THEN q = "run"
    ELSE IF s[i] \in LowerAlnum THEN RegexRun(s, i + 1, "run")
    ELSE IF s[i] = "-" /\ q = "run" THEN RegexRun(s, i + 1, "hyphen")
    ELSE FALSE

LooseRegexTest(s) == Len(s) > 0 /\ \A i \in 1..Len(s) : s[i] \in LowerAlnum \cup {"-"}

kebabCaseRegexTest(s) == RegexRun(s, 1, "start")

validatePatternId(dir) ==
    LET patternId == Basename(dir) IN
    IF ~kebabCaseRegexTest(patternId)
    THEN <<Msg("error", "Pattern ID does not follow kebab-case naming convention", patternId)>>
    ELSE <<Msg("success", "Pattern ID follows naming conventions", patternId)>>

(***************************************************************************)
(* Step 2: validateRequiredFiles.                                          *)
(***************************************************************************)
CheckFileExistsOnly(name, f) ==
    IF ~ExistsSync(f) THEN <<Msg("error", "Required file missing", <<name>>)>>
    ELSE <<Msg("success", "Required file exists", <<name>>)>>

CheckFile(name, f) ==
    IF ~ExistsSync(f) THEN <<Msg("error", "Required file missing", <<name>>)>>
    ELSE IF StatSize(f) = 0 THEN <<Msg("error", "Required file is empty", <<name>>)>>
    ELSE <<Msg("success", "Required file exists", <<name>>)>>

CheckDir(name, d) ==
    IF ~ExistsSync(d) THEN <<Msg("error", "Required directory missing", <<name>>)>>
    ELSE IF ~IsDirectory(d) THEN <<Msg("error", "exists but is not a directory", <<name>>)>>
    ELSE <<Msg("success", "Required directory exists", <<name>>)>>

validateRequiredFiles(yf, rf, dd) ==
    CheckFile("pattern.yaml", yf) \o CheckFile("README.md", rf) \o CheckDir("diagrams", dd)

(***************************************************************************)
(* Step 3: validatePatternYaml.                                            *)
(*                                                                         *)
(* The parsed record keeps what the schema and the reference checks look   *)
(* at: which required top-level properties are present, the two required   *)
(* properties of author, the category, and the referenced paths.           *)
(***************************************************************************)
RequiredFields == <<"title", "description", "author", "category", "tags", "technologies", "use_case">>

ValidCategories == {"automation", "observability", "security", "monitoring", "integration", "data-protection"}

\* yaml.load of an empty or comment-only document
Undefined ==
    [isObject |-> FALSE, present |-> {}, authorName |-> FALSE, authorEmail |-> "absent",
     category |-> "", architecture_diagram |-> "", code_snippets |-> <<>>]

\* fs.readFileSync + yaml.load: a directory cannot be read, an empty file loads as undefined
LoadYaml(f, content) ==
    IF IsDirectory(f) THEN [ok |-> FALSE, data |-> Undefined]
    ELSE IF StatSize(f) = 0 THEN [ok |-> TRUE, data |-> Undefined]
    ELSE content

AjvError(instancePath, missingProperty, message) ==
    [instancePath |-> instancePath, missingProperty |-> missingProperty, message |-> message]

RequiredErrors(data) ==
    LET Absent(f) == f \notin data.present
        missing == SelectSeq(RequiredFields, Absent)
    IN  [i \in 1..Len(missing) |->
            AjvError("", missing[i], <<"must have required property", missing[i]>>)]

AuthorErrors(data) ==
    IF "author" \notin data.present THEN <<>>
    ELSE (IF data.authorName THEN <<>>
          ELSE <<AjvError("/author", "name", <<"must have required property", "name">>)>>)
      \o (IF data.authorEmail = "absent"
          THEN <<AjvError("/author", "email", <<"must have required property", "email">>)>>
          ELSE IF data.authorEmail = "invalid"
          THEN <<AjvError("/author/email", "", <<"must match format", "email">>)>>
          ELSE <<>>)

CategoryErrors(data) ==
    IF "category" \in data.present /\ data.category \notin ValidCategories
    THEN <<AjvError("/category", "", <<"must be equal to one of the allowed values">>)>>
    ELSE <<>>

\* every way in which data violates schemas/pattern-schema.json
SchemaViolations(data) ==
    IF ~data.isObject THEN <<AjvError("", "", <<"must be object">>)>>
    ELSE RequiredErrors(data) \o AuthorErrors(data) \o CategoryErrors(data)

allErrorsOff == FALSE

\* option of new Ajv({ allErrors: true, strict: false })
allErrors == TRUE

\* validate.errors of the compiled schema: all violations with allErrors, else the first
AjvValidate(data) ==
    LET all == SchemaViolations(data) IN
    IF allErrors \/ all = <<>> THEN all ELSE <<Head(all)>>

\* error.instancePath || error.params.missingProperty || 'root'
ErrorField(e) ==
    IF e.instancePath # "" THEN e.instancePath
    ELSE IF e.missingProperty # "" THEN e.missingProperty
    ELSE "root"

SchemaErrorLinesNoHeader(ajvErrors) ==
    [i \in 1..Len(ajvErrors) |->
        Msg("error", "schema violation", <<ErrorField(ajvErrors[i])>> \o ajvErrors[i].message)]

\* the block run when validate(patternData) is false
SchemaErrorLines(ajvErrors) ==
    <<Msg("error", "pattern.yaml does not conform to JSON Schema", <<>>)>>
    \o [i \in 1..Len(ajvErrors) |->
        Msg("error", "schema violation", <<ErrorField(ajvErrors[i])>> \o ajvErrors[i].message)]

\* the loop over implementation.code_snippets: stops at the first missing file
RECURSIVE CheckSnippets(_, _)
CheckSnippets(snippets, dd) ==
    IF snippets = <<>> THEN <<>>
    ELSE IF ~PathExists(Head(snippets), dd)
    THEN <<Msg("error", "Code snippet file not found", <<Head(snippets)>>)>>
    ELSE <<Msg("success", "Code snippet exists", <<Head(snippets)>>)>> \o CheckSnippets(Tail(snippets), dd)

\* "Validate referenced files exist": returns at the first missing target
CheckReferences(data, dd) ==
    IF data.architecture_diagram # "" /\ ~PathExists(data.architecture_diagram, dd)
    THEN <<Msg("error", "Architecture diagram not found", <<data.architecture_diagram>>)>>
    ELSE (IF data.architecture_diagram # ""
          THEN <<Msg("success", "Architecture diagram exists", <<data.architecture_diagram>>)>>
          ELSE <<>>)
         \o CheckSnippets(data.code_snippets, dd)

CheckSchemaThenReferences(data, dd) ==
    LET ajvErrors == AjvValidate(data) IN
    (IF ajvErrors # <<>> THEN SchemaErrorLines(ajvErrors)
     ELSE <<Msg("success", "pattern.yaml conforms to JSON Schema", <<>>)>>)
    \o CheckReferences(data, dd)

\* from "Validate against schema" to the end of validatePatternYaml
CheckSchemaAndReferences(data, dd) ==
    LET ajvErrors == AjvValidate(data) IN
    IF ajvErrors # <<>> THEN SchemaErrorLines(ajvErrors)
    ELSE <<Msg("success", "pattern.yaml conforms to JSON Schema", <<>>)>> \o CheckReferences(data, dd)

\* a schema document that is looked for by nobody
LoadSchemaUnchecked(schema) == <<>>
\* "Load JSON Schema": the errors of a document that is missing or is not JSON
LoadSchema(schema) ==
    IF schema = "missing" THEN <<Msg("error", "JSON Schema not found", <<>>)>>
    ELSE IF schema = "invalid" THEN <<Msg("error", "Failed to load JSON Schema", <<>>)>>
    ELSE <<>>

validatePatternYamlParseContinues(yf, content, schema, dd) ==
    IF ~ExistsSync(yf) THEN <<Msg("error", "pattern.yaml not found", <<>>)>>
    ELSE LET loaded == LoadYaml(yf, content) IN
         (IF ~loaded.ok THEN <<Msg("error", "Failed to parse pattern.yaml", <<>>)>>
          ELSE <<Msg("success", "pattern.yaml is valid YAML format", <<>>)>>)
         \o (IF schema = "missing" THEN <<Msg("error", "JSON Schema not found", <<>>)>>
             ELSE IF schema = "invalid" THEN <<Msg("error", "Failed to load JSON Schema", <<>>)>>
             ELSE CheckSchemaAndReferences(loaded.data, dd))

validatePatternYaml(yf, content, schema, dd) ==
    IF ~ExistsSync(yf) THEN <<Msg("error", "pattern.yaml not found", <<>>)>>
    ELSE LET loaded == LoadYaml(yf, content) IN
         IF ~loaded.ok THEN <<Msg("error", "Failed to parse pattern.yaml", <<>>)>>
         ELSE <<Msg("success", "pattern.yaml is valid YAML format", <<>>)>>
              \o (IF LoadSchema(schema) # <<>> THEN LoadSchema(schema)
                  ELSE CheckSchemaAndReferences(loaded.data, dd))

(***************************************************************************)
(* Step 4: validateReadme.                                                 *)
(*                                                                         *)
(* The text of README.md is its length and the set of words that occur in  *)
(* it, each in the letter case in which it is written.                     *)
(***************************************************************************)
minLength == 100

recommendedSections == <<"Overview", "Architecture", "Implementation", "Prerequisites">>

\* words a README may contain, in the case it writes them
Words == {"## overview", "ARCHITECTURE", "Implementation", "PreRequisites"}

\* a comparison that keeps the case of the content
SameCase(w) == w
\* String.prototype.toLowerCase on the strings of the model
ToLowerCase(w) ==
    CASE w = "## overview" -> "## overview"
      [] w = "ARCHITECTURE" -> "architecture"
      [] w = "Implementation" -> "implementation"
      [] w = "PreRequisites" -> "prerequisites"
      [] w = "Overview" -> "overview"
      [] w = "Architecture" -> "architecture"
      [] w = "Prerequisites" -> "prerequisites"
      [] OTHER -> w

\* a.includes(b) for a word a of the text and a section name b, both lower case
IsSubstring(b, a) ==
    \/ a = b
    \/ a = "## overview" /\ b = "overview"

\* content.toLowerCase().includes(section.toLowerCase())
ContentIncludes(content, section) ==
    \E w \in content.mentions : IsSubstring(ToLowerCase(section), ToLowerCase(w))

MissingSections(content) ==
    LET Lacks(section) == ~ContentIncludes(content, section)
    IN  SelectSeq(recommendedSections, Lacks)

CheckReadmeContentBoth(content) ==
    (IF content.len < minLength THEN <<Msg("warning", "README.md seems too short", <<>>)>> ELSE <<>>)
    \o (IF MissingSections(content) # <<>>
        THEN <<Msg("warning", "README.md is missing recommended sections", MissingSections(content))>>
        ELSE <<>>)
    \o <<Msg("success", "README.md has adequate content", <<>>)>>

\* validateReadme once the text has been read
CheckReadmeContent(content) ==
    IF content.len < minLength
    THEN <<Msg("warning", "README.md seems too short", <<>>)>>
    ELSE (IF MissingSections(content) # <<>>
          THEN <<Msg("warning", "README.md is missing recommended sections", MissingSections(content))>>
          ELSE <<>>)
         \o <<Msg("success", "README.md has adequate content", <<>>)>>

\* fs.readFileSync(readmePath, 'utf8') throws EISDIR on a directory
ReadmeReadThrows(rf) == ExistsSync(rf) /\ IsDirectory(rf)

validateReadmeInverted(rf, content) ==
    IF ExistsSync(rf) THEN <<>> ELSE CheckReadmeContent(content)

validateReadme(rf, content) ==
    IF ~ExistsSync(rf) THEN <<>> ELSE CheckReadmeContent(content)

(***************************************************************************)
(* Summary of validate(): the returned status.                             *)
(***************************************************************************)
SummaryStatusWarnFails(errs, warns) == IF Len(errs) = 0 /\ Len(warns) = 0 THEN 0 ELSE 1

SummaryStatus(errs, warns) ==
    IF Len(errs) = 0 /\ Len(warns) = 0 THEN 0
    ELSE IF Len(errs) > 0 THEN 1
    ELSE 0

(***************************************************************************)
(* Inputs of a run.                                                        *)
(***************************************************************************)
Names == SeqsUpTo(LowerAlnum \cup {"A", "_", "-"}, MaxNameLen)

SampleNames == {<<"a", "-", "0">>, <<"A">>}

CategoryValues == {"automation", "bogus"}

DiagramRefs == {"", "diagrams/architecture.png", "diagrams/missing.png", "diagrams/drafts.png"}

SnippetFiles == {"implementation/handler.js", "implementation/missing.js"}

\* parsed records; fields that the schema cannot see (those of an absent author,
\* the value of an absent category) are held at one value
Records ==
    {r \in [isObject : {TRUE}, present : SUBSET Range(RequiredFields),
            authorName : BOOLEAN, authorEmail : {"absent", "invalid", "valid"},
            category : CategoryValues, architecture_diagram : DiagramRefs,
            code_snippets : SeqsUpTo(SnippetFiles, MaxSnippets)] :
        /\ "author" \notin r.present => r.authorName /\ r.authorEmail = "valid"
        /\ "category" \notin r.present => r.category = "automation"}

DefaultRecord ==
    [isObject |-> TRUE, present |-> Range(RequiredFields), authorName |-> TRUE,
     authorEmail |-> "valid", category |-> "automation",
     architecture_diagram |-> "diagrams/architecture.png",
     code_snippets |-> <<"implementation/handler.js">>]

Parsed(data) == [ok |-> TRUE, data |-> data]
Unparseable == [ok |-> FALSE, data |-> Undefined]

ReadmeLens == {0, minLength - 1, minLength}

ReadmeContents == {c \in [len : ReadmeLens, mentions : SUBSET Words] : c.len = 0 => c.mentions = {}}

DefaultReadme == [len |-> minLength, mentions |-> Words]

NoReadme == [len |-> 0, mentions |-> {}]

TextFile(content) == [kind |-> "file", size |-> content.len]

(***************************************************************************)
(* ReviewerNotifier.                                                       *)
(***************************************************************************)
Null == "<null>"

SmeEntry(reviewers, team, description) ==
    [reviewers |-> reviewers, team |-> team, description |-> description]

SmeKeys == {"automation", "observability", "security", "monitoring", "integration", "data-protection"}

SME_MAPPING ==
    [c \in SmeKeys |->
        CASE c = "automation" ->
                SmeEntry(<<"automation-sme1", "automation-sme2">>, "automation-team", "Automation & Workflows")
          [] c = "observability" ->
                SmeEntry(<<"observability-sme1", "observability-sme2">>, "observability-team", "Observability & Monitoring")
          [] c = "security" ->
                SmeEntry(<<"security-sme1", "security-sme2">>, "security-team", "Security & Compliance")
          [] c = "monitoring" ->
                SmeEntry(<<"monitoring-sme1", "monitoring-sme2">>, "monitoring-team", "System Monitoring")
          [] c = "integration" ->
                SmeEntry(<<"integration-sme1", "integration-sme2">>, "integration-team", "System Integration")
          [] c = "data-protection" ->
                SmeEntry(<<"data-protection-sme1", "data-protection-sme2">>, "data-protection-team", "Data Protection & Recovery")]

FALLBACK_REVIEWERS == <<"pattern-maintainer1", "pattern-maintainer2">>

\* property names that every object literal inherits from Object.prototype
InheritedKeys == {"constructor", "toString", "__proto__"}

\* SME_MAPPING[category]: an own entry, an inherited property (truthy, without
\* reviewers or description) or undefined
SmeLookup(category) ==
    IF category \in SmeKeys THEN [kind |-> "own", sme |-> SME_MAPPING[category]]
    ELSE IF category \in InheritedKeys
    THEN [kind |-> "inherited", sme |-> SmeEntry(<<>>, "", "undefined")]
    ELSE [kind |-> "undefined", sme |-> SmeEntry(<<>>, "", "")]

\* patternData.category || null, inside the try block
getPatternCategory(f, content) ==
    IF ~ExistsSync(f) THEN Null
    ELSE LET loaded == LoadYaml(f, content) IN
         IF ~loaded.ok THEN Null
         ELSE IF ~loaded.data.isObject THEN Null
         ELSE IF "category" \notin loaded.data.present \/ loaded.data.category = "" THEN Null
         ELSE loaded.data.category

getReviewersForCategoryNoFallback(category) ==
    IF category = Null THEN FALLBACK_REVIEWERS ELSE SmeLookup(category).sme.reviewers

getReviewersForCategory(category) ==
    IF category = Null THEN FALLBACK_REVIEWERS
    ELSE LET found == SmeLookup(category) IN
         IF found.kind = "undefined" THEN FALLBACK_REVIEWERS
         ELSE IF found.kind = "own" THEN found.sme.reviewers
         ELSE FALLBACK_REVIEWERS

\* Set.prototype.add on a Set kept in insertion order
SetAdd(set, x) == IF x \in Range(set) THEN set ELSE Append(set, x)

RECURSIVE SetAddAll(_, _)
SetAddAll(set, xs) == IF xs = <<>> THEN set ELSE SetAddAll(SetAdd(set, Head(xs)), Tail(xs))

\* Map.prototype.get(key).add(x) for each x, after "if (!has(key)) set(key, new Set())"
MapAddAll(map, key, xs) ==
    LET MapHas == \E i \in 1..Len(map) : map[i].key = key
        m == IF MapHas THEN map ELSE Append(map, [key |-> key, value |-> <<>>])
    IN  [i \in 1..Len(m) |->
            IF m[i].key = key THEN [key |-> key, value |-> SetAddAll(m[i].value, xs)] ELSE m[i]]

\* a resolution that keeps only the keys of the mapping
ResolvedCategoryOfMapping(category) == IF category \in SmeKeys THEN category ELSE "unknown"
\* category || 'unknown'
ResolvedCategory(category) == IF category = Null THEN "unknown" ELSE category

\* one iteration of the loop of processPatterns on the notifier n
ProcessOne(n, dir, f, content) ==
    LET category == getPatternCategory(f, content)
        reviewers == getReviewersForCategory(category)
    IN  [patterns |-> Append(n.patterns,
                             [directory |-> dir, category |-> ResolvedCategory(category),
                              reviewers |-> reviewers]),
         categoryReviewers |-> IF category # Null
                               THEN MapAddAll(n.categoryReviewers, category, reviewers)
                               ELSE n.categoryReviewers,
         allReviewers |-> IF category # Null
                          THEN SetAddAll(n.allReviewers, reviewers)
                          ELSE n.allReviewers]

(***************************************************************************)
(* generateComment: the report is a sequence of lines [t, a, d]; a holds   *)
(* the strings interpolated in the line, d the directory of a list item.   *)
(***************************************************************************)
Line(t, a) == [t |-> t, a |-> a, d |-> <<>>]

\* icons[category] || default
getCategoryIcon(category) ==
    IF category \in SmeKeys THEN <<"icon", category>>
    ELSE IF category \in InheritedKeys THEN <<"function", category>>
    ELSE <<"icon", "default">>

\* keys of patternsByCategory, in insertion order
RECURSIVE GroupKeys(_, _)
GroupKeys(ps, seen) ==
    IF ps = <<>> THEN seen ELSE GroupKeys(Tail(ps), SetAdd(seen, Head(ps).category))

\* patternsByCategory.get(category)
GroupOf(ps, category) == LET In(p) == p.category = category IN SelectSeq(ps, In)

PatternLines(ps) == [i \in 1..Len(ps) |-> [t |-> "pattern", a |-> <<>>, d |-> ps[i].directory]]

\* the section of one category; the map of an inherited property has no reviewers to map over
SectionThrows(category) == SmeLookup(category).kind = "inherited"

Section(category, ps) ==
    LET found == SmeLookup(category)
        categoryName == IF found.kind = "undefined" THEN category ELSE found.sme.description
    IN  <<Line("section", getCategoryIcon(category) \o <<categoryName>>)>>
        \o (IF found.kind # "undefined" THEN <<Line("reviewers", found.sme.reviewers)>> ELSE <<>>)
        \o <<Line("patterns", <<>>)>>
        \o PatternLines(ps)
        \o <<Line("blank", <<>>)>>

RECURSIVE Sections(_, _)
Sections(keys, ps) ==
    IF keys = <<>> THEN <<>>
    ELSE Section(Head(keys), GroupOf(ps, Head(keys))) \o Sections(Tail(keys), ps)

ReviewChecklist ==
    <<Line("rule", <<>>), Line("checklist", <<>>),
      Line("item", <<"structure and naming">>), Line("item", <<"pattern.yaml">>),
      Line("item", <<"README.md">>), Line("item", <<"diagram">>),
      Line("item", <<"code examples">>), Line("item", <<"security">>),
      Line("item", <<"category">>), Line("note", <<>>)>>

Returns(kind, lines) == [kind |-> kind, lines |-> lines]

generateComment(ps) ==
    IF Len(ps) = 0 THEN Returns("null", <<>>)
    ELSE LET keys == GroupKeys(ps, <<>>) IN
         IF \E i \in 1..Len(keys) : SectionThrows(keys[i]) THEN Returns("TypeError", <<>>)
         ELSE Returns("text", <<Line("title", <<>>), Line("intro", <<>>)>>
                              \o Sections(keys, ps) \o ReviewChecklist)

AfterGenerateCommentDrains(ps) == <<>>

\* this.patterns after a call of generateComment, which assigns no field of the notifier
AfterGenerateComment(ps) == ps

(***************************************************************************)
(* The entries that the notifier may be given, and their pattern.yaml.     *)
(***************************************************************************)
RecordOf(category) == [DefaultRecord EXCEPT !.category = category]

Entry(f, content) == [file |-> f, content |-> content]

StaticDirs ==
    {<<<<"p", "1">>>>, <<<<"s", "1">>>>, <<<<"b", "1">>>>, <<<<"n", "1">>>>, <<<<"u", "1">>>>,
     <<<<"m", "1">>>>, <<<<"e", "1">>>>, <<<<"c", "1">>>>}

StaticEntry(dir) ==
    CASE dir = <<<<"p", "1">>>> -> Entry(PlainFile, Parsed(RecordOf("automation")))
      [] dir = <<<<"s", "1">>>> -> Entry(PlainFile, Parsed(RecordOf("security")))
      [] dir = <<<<"b", "1">>>> -> Entry(PlainFile, Parsed(RecordOf("bogus")))
      [] dir = <<<<"n", "1">>>> -> Entry(PlainFile, Parsed([DefaultRecord EXCEPT !.present = @ \ {"category"}]))
      [] dir = <<<<"u", "1">>>> -> Entry(PlainFile, Unparseable)
      [] dir = <<<<"m", "1">>>> -> Entry(Missing, Unparseable)
      [] dir = <<<<"e", "1">>>> -> Entry(EmptyFile, Parsed(Undefined))
      [] dir = <<<<"c", "1">>>> -> Entry(PlainFile, Parsed(RecordOf("constructor")))

\* pattern.yaml of a directory: the validated entry or one of the others
EntryOf(dir) == IF dir = patternDir THEN Entry(yamlFile, yamlContent) ELSE StaticEntry(dir)

NotifyDirs == StaticDirs \cup {patternDir}

Notifier(ps, all, byCategory) ==
    [patterns |-> ps, allReviewers |-> all, categoryReviewers |-> byCategory]

\* the loop of processPatterns; an empty list leaves the notifier as it is
RECURSIVE processPatterns(_, _)
processPatterns(n, dirs) ==
    IF dirs = <<>> THEN n
    ELSE processPatterns(ProcessOne(n, Head(dirs), EntryOf(Head(dirs)).file,
                                    EntryOf(Head(dirs)).content),
                         Tail(dirs))

\* generateOutput: the appended lines, the returned value and the notifier afterwards
generateOutput(n, env) ==
    LET reviewersList == n.allReviewers
        head == IF env THEN <<[key |-> "reviewers", value |-> reviewersList, text |-> <<>>],
                              [key |-> "reviewer_count", value |-> <<>>, text |-> <<>>,
                               count |-> Len(reviewersList)]>>
                ELSE <<>>
        first == generateComment(n.patterns)
        ps1 == IF env THEN AfterGenerateComment(n.patterns) ELSE n.patterns
        second == generateComment(ps1)
        ps2 == AfterGenerateComment(ps1)
    IN  IF env /\ first.kind = "TypeError"
        THEN [appended |-> head, patterns |-> n.patterns,
              returned |-> [kind |-> "TypeError", reviewers |-> <<>>, patterns |-> <<>>,
                            comment |-> Returns("none", <<>>)]]
        ELSE IF second.kind = "TypeError"
        THEN [appended |-> head, patterns |-> ps1,
              returned |-> [kind |-> "TypeError", reviewers |-> <<>>, patterns |-> <<>>,
                            comment |-> Returns("none", <<>>)]]
        ELSE [appended |-> head \o (IF env /\ first.kind = "text"
                                    THEN <<[key |-> "pr_comment", value |-> <<>>,
                                            text |-> first.lines]>>
                                    ELSE <<>>),
              patterns |-> ps2,
              returned |-> [kind |-> "value", reviewers |-> reviewersList, patterns |-> ps2,
                            comment |-> second]]

NoOutput == [kind |-> "none", reviewers |-> <<>>, patterns |-> <<>>, comment |-> Returns("none", <<>>)]

NoRun == [kind |-> "none", dirs |-> <<>>, comment |-> Returns("none", <<>>)]

\* new ReviewerNotifier()
FreshNotifier ==
    /\ patterns = <<>>
    /\ allReviewers = <<>>
    /\ categoryReviewers = <<>>
    /\ commentCalls = <<>>
    /\ output = NoOutput
    /\ ghOutput = <<>>
    /\ passedDirs = <<>>

(***************************************************************************)
(* detect-changed-patterns.sh.  A path, a line and a word are sequences of *)
(* characters; the script runs in a GitHub Actions step, where             *)
(* GITHUB_OUTPUT names a writable file.                                    *)
(***************************************************************************)
\* the characters of the paths, in the order of their codes
Ascii ==
    <<" ", "-", ".", "/", "0", "1", "2", "3", "4", "5", "6", "7", "8", "9",
      "A", "B", "C", "D", "E", "F", "G", "H", "I", "J", "K", "L", "M", "N",
      "O", "P", "Q", "R", "S", "T", "U", "V", "W", "X", "Y", "Z", "_", "a",
      "b", "c", "d", "e", "f", "g", "h", "i", "j", "k", "l", "m", "n", "o",
      "p", "q", "r", "s", "t", "u", "v", "w", "x", "y", "z">>

Code(c) == CHOOSE i \in 1..Len(Ascii) : Ascii[i] = c

\* the order of two lines by the codes of their characters
RECURSIVE Before(_, _)
Before(x, y) ==
    IF x = <<>> THEN y # <<>>
    ELSE IF y = <<>> THEN FALSE
    ELSE IF Head(x) = Head(y) THEN Before(Tail(x), Tail(y))
    ELSE Code(Head(x)) < Code(Head(y))

\* the lines of a set in ascending order, each once
RECURSIVE SortU(_)
SortU(S) ==
    IF S = {} THEN <<>>
    ELSE LET m == CHOOSE x \in S : \A y \in S \ {x} : Before(x, y)
         IN  <<m>> \o SortU(S \ {m})

\* git diff --name-only: the changed paths, one per line, in path order
GitDiffNameOnly(paths) == SortU(paths)

\* echo "$CHANGED_FILES": an empty text is one empty line
Echo(lines) == IF lines = <<>> THEN << <<>> >> ELSE lines

\* the regular expression ^prefix
StartsWith(line, prefix) ==
    Len(line) >= Len(prefix) /\ SubSeq(line, 1, Len(prefix)) = prefix

\* the prefixes and whole lines of the grep -v filters
GithubSlash == <<".", "g", "i", "t", "h", "u", "b", "/">>
SchemasSlash == <<"s", "c", "h", "e", "m", "a", "s", "/">>
CategoriesConfig == <<"c", "a", "t", "e", "g", "o", "r", "i", "e", "s", ".", "c", "o", "n", "f", "i", "g", ".", "j", "s", "o", "n">>
TemplateSlash == <<"p", "a", "t", "t", "e", "r", "n", "-", "t", "e", "m", "p", "l", "a", "t", "e", "/">>
ReadmeMd == <<"R", "E", "A", "D", "M", "E", ".", "m", "d">>
License == <<"L", "I", "C", "E", "N", "S", "E">>
Dot == <<".">>

\* a line that one of the seven grep -v filters removes
Filtered(line) ==
    \/ StartsWith(line, GithubSlash)
    \/ StartsWith(line, SchemasSlash)
    \/ line = CategoriesConfig
    \/ StartsWith(line, TemplateSlash)
    \/ line = ReadmeMd
    \/ StartsWith(line, License)
    \/ StartsWith(line, Dot)

GrepV(lines) == LET Kept(line) == ~Filtered(line) IN SelectSeq(lines, Kept)

\* cut -d'/' -f1: the line up to its first slash, the whole line if it has none
\* cut without a delimiter in the line, and what it would leave of every line
WholeLine(line) == line

Cut(line) ==
    IF "/" \notin Range(line) THEN line
    ELSE SubSeq(line, 1, (CHOOSE i \in 1..Len(line) :
                             line[i] = "/" /\ \A k \in 1..(i - 1) : line[k] # "/") - 1)

\* grep -v '^$'
NonEmptyLines(lines) == LET NonEmpty(line) == line # <<>> IN SelectSeq(lines, NonEmpty)

\* the pipeline of lines 36-46
ExtractDirs(changedFiles) ==
    LET kept == GrepV(Echo(changedFiles)) IN
    NonEmptyLines(SortU({Cut(kept[i]) : i \in 1..Len(kept)}))

\* the status of the last grep of the pipeline: 1 when it selects no line
GrepStatus(selected) == IF selected = <<>> THEN 1 ELSE 0

\* a pipeline that is left to fail
Failing(status) == status
\* pipeline || true
OrTrue(status) == 0

\* the words of a line: an unquoted expansion is split at spaces
RECURSIVE SplitLine(_, _)
SplitLine(line, word) ==
    IF line = <<>> THEN (IF word = <<>> THEN <<>> ELSE <<word>>)
    ELSE IF Head(line) = " "
    THEN (IF word = <<>> THEN <<>> ELSE <<word>>) \o SplitLine(Tail(line), <<>>)
    ELSE SplitLine(Tail(line), Append(word, Head(line)))

\* the words of $PATTERN_DIRS, which is split at newlines and spaces
RECURSIVE WordsOf(_)
WordsOf(lines) ==
    IF lines = <<>> THEN <<>> ELSE SplitLine(Head(lines), <<>>) \o WordsOf(Tail(lines))

\* the loop of lines 57-62 and xargs: the words that are directories, in order
VerifyDirs(lines, dirsAtHead) ==
    LET IsDir(word) == word \in dirsAtHead /\ word # <<".">>
    IN  SelectSeq(WordsOf(lines), IsDir)

\* a line appended to $GITHUB_OUTPUT
OutputLine(key, value, count) == [key |-> key, value |-> value, count |-> count]

EmptyResult ==
    <<OutputLine("changed_patterns", <<>>, 0), OutputLine("pattern_count", <<>>, 0)>>

\* lines 74-85
Result(valid) ==
    <<OutputLine("changed_patterns", valid, 0), OutputLine("pattern_count", <<>>, Len(valid)),
      OutputLine("patterns_json", valid, 0)>>

\* the statuses with which git ends when it fails
GitFailure == {1, 128}

Running == -1

\* the paths that a pull request may change
ChangedPool ==
    {<<".", "g", "i", "t", "h", "u", "b", "/", "w", ".", "y", "m", "l">>,
     <<"s", "c", "h", "e", "m", "a", "s", "/", "s", ".", "j", "s", "o", "n">>,
     <<"p", "a", "t", "t", "e", "r", "n", "-", "t", "e", "m", "p", "l", "a", "t", "e", "/", "a">>,
     <<"c", "a", "t", "e", "g", "o", "r", "i", "e", "s", ".", "c", "o", "n", "f", "i", "g", ".", "j", "s", "o", "n">>,
     <<"R", "E", "A", "D", "M", "E", ".", "m", "d">>,
     <<"L", "I", "C", "E", "N", "S", "E">>,
     <<"L", "I", "C", "E", "N", "S", "E", "-", "d", "o", "c", "s", "/", "a">>,
     <<".", "g", "i", "t", "i", "g", "n", "o", "r", "e">>,
     <<"p", "a", "c", "k", "a", "g", "e", ".", "j", "s", "o", "n">>,
     <<"a", "l", "p", "h", "a", "/", "p", "a", "t", "t", "e", "r", "n", ".", "y", "a", "m", "l">>,
     <<"a", "l", "p", "h", "a", "/", "d", "i", "a", "g", "r", "a", "m", "s", "/", "a", ".", "p", "n", "g">>,
     <<"b", "e", "t", "a", "/", "R", "E", "A", "D", "M", "E", ".", "m", "d">>,
     <<"m", "y", " ", "p", "a", "t", "t", "e", "r", "n", "/", "a">>,
     <<"n", "e", "w", " ", "s", "c", "h", "e", "m", "a", "s", "/", "a">>,
     <<"s", "c", "h", "e", "m", "a", "s", "-", "v", "2", "/", "a">>,
     <<"p", "a", "t", "t", "e", "r", "n", "s", "/", "a", "l", "p", "h", "a", "/", "a">>,
     <<"p", "a", "t", "t", "e", "r", "n", "s", "/", "b", "e", "t", "a", "/", "a">>,
     <<"d", "o", "c", "s", "/", "s", "c", "h", "e", "m", "a", "s", "/", "a">>}

\* directories of the repository itself, and those that may exist at the head revision
RepositoryDirs == {<<".", "g", "i", "t", "h", "u", "b">>, <<"s", "c", "h", "e", "m", "a", "s">>, <<"p", "a", "t", "t", "e", "r", "n", "-", "t", "e", "m", "p", "l", "a", "t", "e">>}

DirPool ==
    {<<"a", "l", "p", "h", "a">>,
     <<"b", "e", "t", "a">>,
     <<"p", "a", "t", "t", "e", "r", "n", "s">>,
     <<"m", "y", " ", "p", "a", "t", "t", "e", "r", "n">>,
     <<"p", "a", "t", "t", "e", "r", "n">>,
     <<"d", "o", "c", "s">>}

DetectorStart ==
    /\ step = "start"
    /\ CHANGED_FILES = <<>>
    /\ PATTERN_DIRS = <<>>
    /\ VALID_PATTERN_DIRS = <<>>
    /\ detectOutput = <<>>
    /\ exitStatus = Running
    /\ gitStatus = 0

\* no detection: the validator and the notifier are run by hand
DetectorIdle ==
    /\ changed = {}
    /\ headDirs = RepositoryDirs
    /\ DetectorStart

\* the arguments that main may be given: none, a path that does not exist, a file, a directory
Arguments == {"none", "missing", "file", "dir"}

\* main has called validate on the entry directory
InValidate ==
    /\ argv = "dir"
    /\ exitCode = Running
    /\ runs = 1

FreshValidator ==
    /\ errors = <<>>
    /\ warnings = <<>>
    /\ console = <<>>
    /\ pc = "validatePatternId"
    /\ result = "none"
    /\ InValidate

\* every directory name, in an otherwise complete entry
InitNaming ==
    /\ patternDir \in {<<n>> : n \in Names}
    /\ yamlFile = PlainFile
    /\ yamlContent = Parsed(DefaultRecord)
    /\ schemaFile = "ok"
    /\ readmeContent = DefaultReadme
    /\ readmeFile = TextFile(readmeContent)
    /\ diagramsDir = Dir

\* every state of the three required items and every README text
InitFiles ==
    /\ patternDir \in {<<n>> : n \in SampleNames}
    /\ yamlFile \in {Missing, EmptyFile, PlainFile} \cup Dirs
    /\ yamlContent \in IF yamlFile = PlainFile
                        THEN {Unparseable, Parsed(Undefined), Parsed(DefaultRecord)}
                        ELSE IF yamlFile = EmptyFile THEN {Parsed(Undefined)} ELSE {Unparseable}
    /\ schemaFile = "ok"
    /\ \/ /\ readmeContent \in ReadmeContents
          /\ readmeFile = TextFile(readmeContent)
       \/ /\ readmeContent = NoReadme
          /\ readmeFile \in {Missing} \cup Dirs
    /\ diagramsDir \in {Missing, EmptyFile, PlainFile} \cup Dirs

\* every parsed record and every state of the schema document
InitSchema ==
    /\ patternDir = <<<<"a", "-", "0">>>>
    /\ yamlFile = PlainFile
    /\ \/ /\ schemaFile = "ok"
          /\ yamlContent \in {Parsed(r) : r \in Records}
       \/ /\ schemaFile \in {"missing", "invalid"}
          /\ yamlContent = Parsed(DefaultRecord)
    /\ readmeContent \in {DefaultReadme, [len |-> minLength - 1, mentions |-> {}]}
    /\ readmeFile = TextFile(readmeContent)
    /\ diagramsDir = Dir

Init ==
    /\ FreshValidator
    /\ InitNaming \/ InitFiles \/ InitSchema
    /\ FreshNotifier
    /\ envSet = TRUE
    /\ prevRun = NoRun
    /\ DetectorIdle

(***************************************************************************)
(* validate(patternDir, repoRoot), one action per step.                    *)
(***************************************************************************)
Emit(events, next) ==
    /\ errors' = errors \o ErrorsOf(events)
    /\ warnings' = warnings \o WarningsOf(events)
    /\ console' = console \o events
    /\ pc' = next
    /\ UNCHANGED <<inputs, result, processVars, notifierVars, detectorVars>>

\* this.log of the heading of a step
StepHeading(heading) == <<Msg("log", heading, <<>>)>>

\* a validate that goes to the summary when a required item is bad
AfterRequiredFilesIfValid(events) ==
    IF ErrorsOf(events) = <<>> THEN "validatePatternYaml" ELSE "summary"
\* the step after validateRequiredFiles: filesValid is assigned and never read
AfterRequiredFiles(events) == "validatePatternYaml"

ValidatePatternId ==
    /\ pc = "validatePatternId"
    /\ Emit(StepHeading("Step 1: Validating Pattern ID") \o validatePatternId(patternDir),
            "validateRequiredFiles")

ValidateRequiredFiles ==
    /\ pc = "validateRequiredFiles"
    /\ Emit(StepHeading("Step 2: Checking Required Files")
                \o validateRequiredFiles(yamlFile, readmeFile, diagramsDir),
            AfterRequiredFiles(validateRequiredFiles(yamlFile, readmeFile, diagramsDir)))

ValidatePatternYaml ==
    /\ pc = "validatePatternYaml"
    /\ Emit(StepHeading("Step 3: Validating pattern.yaml")
                \o validatePatternYaml(yamlFile, yamlContent, schemaFile, diagramsDir),
            "validateReadme")

ValidateReadme ==
    /\ pc = "validateReadme"
    /\ IF ReadmeReadThrows(readmeFile)
       THEN Emit(StepHeading("Step 4: Validating README.md"), "threw")
       ELSE Emit(StepHeading("Step 4: Validating README.md")
                    \o validateReadme(readmeFile, readmeContent),
                 "summary")

Summary ==
    /\ pc = "summary"
    /\ result' = SummaryStatus(errors, warnings)
    /\ pc' = "done"
    /\ UNCHANGED <<inputs, errors, warnings, console, processVars, notifierVars, detectorVars>>

(***************************************************************************)
(* main() of validate-pattern.js: the checks of its argument before the    *)
(* call of validate, and the exit of the process after it.                 *)
(***************************************************************************)
\* an exit code of its own for what is not a verdict: the first after PASS (0) and FAIL (1)
ExitFatalDistinct == Cardinality({"PASS", "FAIL"})
\* process.exit(1) of the three checks of main and of the catch of its promise
ExitFatal == 1

Main ==
    /\ pc = "main"
    /\ IF argv = "dir"
       THEN pc' = "validatePatternId" /\ UNCHANGED exitCode
       ELSE pc' = "exited in main" /\ exitCode' = ExitFatal
    /\ UNCHANGED <<inputs, errors, warnings, console, result, argv, runs, notifierVars,
                   detectorVars>>

\* process.exit(exitCode), or the catch of main().catch when validate raised
ProcessExit ==
    /\ pc \in {"done", "threw"}
    /\ exitCode' = IF pc = "done" THEN result ELSE ExitFatal
    /\ pc' = IF pc = "done" THEN "exited" ELSE "exited in catch"
    /\ UNCHANGED <<inputs, errors, warnings, console, result, argv, runs, notifierVars,
                   detectorVars>>

\* an entry whose README.md cannot be read
InitUnreadable ==
    /\ patternDir = <<<<"a", "-", "0">>>>
    /\ yamlFile = PlainFile
    /\ yamlContent = Parsed(DefaultRecord)
    /\ schemaFile = "ok"
    /\ readmeContent = NoReadme
    /\ readmeFile \in Dirs
    /\ diagramsDir = Dir

\* a process started on any argument
InitMain ==
    /\ errors = <<>>
    /\ warnings = <<>>
    /\ console = <<>>
    /\ result = "none"
    /\ pc = "main"
    /\ exitCode = Running
    /\ runs = 1
    /\ \/ argv = "dir" /\ (InitSchema \/ InitUnreadable)
       \/ argv \in Arguments \ {"dir"} /\ InitUnreadable
    /\ FreshNotifier
    /\ envSet = TRUE
    /\ prevRun = NoRun
    /\ DetectorIdle

NextMain ==
    \/ Main
    \/ ValidatePatternId
    \/ ValidateRequiredFiles
    \/ ValidatePatternYaml
    \/ ValidateReadme
    \/ Summary
    \/ ProcessExit

SpecMain == InitMain /\ [][NextMain]_vars

(***************************************************************************)
(* A PatternValidator that is used again: the module exports the class,    *)
(* and validate assigns neither this.errors nor this.warnings.             *)
(***************************************************************************)
\* this.errors or this.warnings at the start of a later call of validate
KeptForRun(list) == list

\* validate is called again, on the same entry or on the complete one
ValidateAgain ==
    /\ pc = "done"
    /\ runs < MaxRuns
    /\ runs' = runs + 1
    /\ pc' = "validatePatternId"
    /\ result' = "none"
    /\ errors' = KeptForRun(errors)
    /\ warnings' = KeptForRun(warnings)
    /\ \/ UNCHANGED inputs
       \/ /\ patternDir' = <<<<"a", "-", "0">>>>
          /\ yamlFile' = PlainFile
          /\ yamlContent' = Parsed(DefaultRecord)
          /\ schemaFile' = "ok"
          /\ readmeContent' = DefaultReadme
          /\ readmeFile' = TextFile(DefaultReadme)
          /\ diagramsDir' = Dir
    /\ UNCHANGED <<console, argv, exitCode, notifierVars, detectorVars>>

InitReuse ==
    /\ FreshValidator
    /\ InitSchema
    /\ FreshNotifier
    /\ envSet = TRUE
    /\ prevRun = NoRun
    /\ DetectorIdle

NextReuse ==
    \/ ValidatePatternId
    \/ ValidateRequiredFiles
    \/ ValidatePatternYaml
    \/ ValidateReadme
    \/ Summary
    \/ ValidateAgain

SpecReuse == InitReuse /\ [][NextReuse]_vars

(***************************************************************************)
(* ReviewerNotifier, one action per method.                                *)
(***************************************************************************)
Directories(ps) == [i \in 1..Len(ps) |-> ps[i].directory]

IsPrefix(s, t) == Len(s) <= Len(t) /\ \A i \in 1..Len(s) : s[i] = t[i]

SetNotifier(n) ==
    /\ patterns' = n.patterns
    /\ allReviewers' = n.allReviewers
    /\ categoryReviewers' = n.categoryReviewers

\* processPatterns(dirs); a second notifier of the history is given the directories of the first
ProcessPatterns ==
    \E dirs \in SeqsUpTo(NotifyDirs, MaxPatterns) :
        /\ Len(patterns) + Len(dirs) <= MaxPatterns
        /\ prevRun.kind = "run" => IsPrefix(Directories(patterns) \o dirs, prevRun.dirs)
        /\ SetNotifier(processPatterns(Notifier(patterns, allReviewers, categoryReviewers), dirs))
        /\ commentCalls' = IF dirs = <<>> THEN commentCalls ELSE <<>>
        /\ passedDirs' = passedDirs \o dirs
        /\ UNCHANGED <<validatorVars, detectorVars, output, ghOutput, envSet, prevRun>>

GenerateComment ==
    /\ Len(commentCalls) < MaxCommentCalls
    /\ commentCalls' = Append(commentCalls, generateComment(patterns))
    /\ patterns' = AfterGenerateComment(patterns)
    /\ UNCHANGED <<validatorVars, detectorVars, allReviewers, categoryReviewers, output,
                   ghOutput, envSet, prevRun, passedDirs>>

GenerateOutput ==
    /\ output.kind = "none"
    /\ LET out == generateOutput(Notifier(patterns, allReviewers, categoryReviewers), envSet) IN
        /\ output' = out.returned
        /\ ghOutput' = ghOutput \o out.appended
        /\ patterns' = out.patterns
    /\ UNCHANGED <<validatorVars, detectorVars, allReviewers, categoryReviewers, commentCalls,
                   envSet, prevRun, passedDirs>>

\* a later invocation of the script: a new notifier over the same file system
NewNotifier ==
    /\ prevRun.kind = "none"
    /\ commentCalls # <<>>
    /\ prevRun' = [kind |-> "run", dirs |-> Directories(patterns), comment |-> commentCalls[1]]
    /\ patterns' = <<>>
    /\ allReviewers' = <<>>
    /\ categoryReviewers' = <<>>
    /\ commentCalls' = <<>>
    /\ output' = NoOutput
    /\ passedDirs' = <<>>
    /\ UNCHANGED <<validatorVars, detectorVars, ghOutput, envSet>>

\* run(patternDirs) of notify-reviewers.js on the entry that was validated
NotifierRun ==
    /\ pc \in {"done", "threw"}
    /\ output.kind = "none"
    /\ LET n == processPatterns(Notifier(patterns, allReviewers, categoryReviewers), <<patternDir>>)
           out == generateOutput(n, envSet)
       IN  /\ SetNotifier([n EXCEPT !.patterns = out.patterns])
           /\ output' = out.returned
           /\ ghOutput' = ghOutput \o out.appended
    /\ passedDirs' = passedDirs \o <<patternDir>>
    /\ UNCHANGED <<validatorVars, detectorVars, commentCalls, envSet, prevRun>>

Next ==
    \/ ValidatePatternId
    \/ ValidateRequiredFiles
    \/ ValidatePatternYaml
    \/ ValidateReadme
    \/ Summary
    \/ NotifierRun

Spec == Init /\ [][Next]_vars

\* the notifier alone, over the entries of StaticEntry and one valid entry
InitNotify ==
    /\ FreshValidator
    /\ patternDir = <<<<"a", "-", "0">>>>
    /\ yamlFile = PlainFile
    /\ yamlContent = Parsed(DefaultRecord)
    /\ schemaFile = "ok"
    /\ readmeContent = DefaultReadme
    /\ readmeFile = TextFile(readmeContent)
    /\ diagramsDir = Dir
    /\ FreshNotifier
    /\ envSet \in BOOLEAN
    /\ prevRun = NoRun
    /\ DetectorIdle

NextNotify ==
    \/ ProcessPatterns
    \/ GenerateComment
    \/ GenerateOutput
    \/ NewNotifier

SpecNotify == InitNotify /\ [][NextNotify]_vars

(***************************************************************************)
(* The steps of detect-changed-patterns.sh; set -e ends the script with    *)
(* the status of the command that fails.                                   *)
(***************************************************************************)
Ended == {"ended at fetch", "ended at diff", "ended at extract", "ended at verify", "ended"}

Exit(at, status, written) ==
    /\ step' = at
    /\ exitStatus' = status
    /\ detectOutput' = detectOutput \o written

\* a script without set -e goes on after a command that fails
GoesOn(status) == FALSE
\* set -e: a command that fails ends the script
SetE(status) == status # 0

\* git fetch origin "${BASE_BRANCH}" --depth=1
GitFetch ==
    /\ step = "start"
    /\ \E status \in {0} \cup GitFailure :
          /\ gitStatus' = status
          /\ IF SetE(status)
             THEN Exit("ended at fetch", status, <<>>)
             ELSE step' = "fetched" /\ UNCHANGED <<exitStatus, detectOutput>>
    /\ UNCHANGED <<validatorVars, notifierVars, changed, headDirs, CHANGED_FILES, PATTERN_DIRS,
                   VALID_PATTERN_DIRS>>

\* CHANGED_FILES=$(git diff --name-only "origin/${BASE_BRANCH}...HEAD")
GitDiff ==
    /\ step = "fetched"
    /\ \E status \in {0} \cup GitFailure :
          /\ gitStatus' = status
          /\ CHANGED_FILES' = IF status = 0 THEN GitDiffNameOnly(changed) ELSE <<>>
          /\ IF SetE(status)
             THEN Exit("ended at diff", status, <<>>)
             ELSE step' = "diffed" /\ UNCHANGED <<exitStatus, detectOutput>>
    /\ UNCHANGED <<validatorVars, notifierVars, changed, headDirs, PATTERN_DIRS,
                   VALID_PATTERN_DIRS>>

\* lines 36-53
ExtractPatternDirs ==
    /\ step = "diffed"
    /\ PATTERN_DIRS' = ExtractDirs(CHANGED_FILES)
    /\ IF OrTrue(GrepStatus(PATTERN_DIRS')) # 0
       THEN Exit("ended at extract", OrTrue(GrepStatus(PATTERN_DIRS')), <<>>)
       ELSE IF PATTERN_DIRS' = <<>>
       THEN Exit("ended at extract", 0, EmptyResult)
       ELSE step' = "extracted" /\ UNCHANGED <<exitStatus, detectOutput>>
    /\ UNCHANGED <<validatorVars, notifierVars, changed, headDirs, CHANGED_FILES,
                   VALID_PATTERN_DIRS, gitStatus>>

\* lines 56-71
VerifyDirectories ==
    /\ step = "extracted"
    /\ VALID_PATTERN_DIRS' = VerifyDirs(PATTERN_DIRS, headDirs)
    /\ IF VALID_PATTERN_DIRS' = <<>>
       THEN Exit("ended at verify", 0, EmptyResult)
       ELSE step' = "verified" /\ UNCHANGED <<exitStatus, detectOutput>>
    /\ UNCHANGED <<validatorVars, notifierVars, changed, headDirs, CHANGED_FILES, PATTERN_DIRS,
                   gitStatus>>

\* lines 74-89
WriteOutputs ==
    /\ step = "verified"
    /\ Exit("ended", 0, Result(VALID_PATTERN_DIRS))
    /\ UNCHANGED <<validatorVars, notifierVars, changed, headDirs, CHANGED_FILES, PATTERN_DIRS,
                   VALID_PATTERN_DIRS, gitStatus>>

\* a pull request: the paths it changes and the directories of its head revision
InitDetect ==
    /\ FreshValidator
    /\ patternDir = <<<<"a", "-", "0">>>>
    /\ yamlFile = PlainFile
    /\ yamlContent = Parsed(DefaultRecord)
    /\ schemaFile = "ok"
    /\ readmeContent = DefaultReadme
    /\ readmeFile = TextFile(readmeContent)
    /\ diagramsDir = Dir
    /\ FreshNotifier
    /\ envSet = TRUE
    /\ prevRun = NoRun
    /\ changed \in {c \in SUBSET ChangedPool : Cardinality(c) <= MaxChanged}
    /\ \E atHead \in SUBSET DirPool : headDirs = RepositoryDirs \cup atHead
    /\ DetectorStart

NextDetect ==
    \/ GitFetch
    \/ GitDiff
    \/ ExtractPatternDirs
    \/ VerifyDirectories
    \/ WriteOutputs

SpecDetect == InitDetect /\ [][NextDetect]_vars

(***************************************************************************)
(* Vocabulary of the properties.                                           *)
(***************************************************************************)
Returned == pc = "done"

PcOrder ==
    [validatePatternId |-> 1, validateRequiredFiles |-> 2, validatePatternYaml |-> 3,
     validateReadme |-> 4, summary |-> 5, done |-> 6, threw |-> 6]

\* the step named p has been executed
Past(p) == PcOrder[pc] > PcOrder[p]

patternId == Basename(patternDir)

Count(s, Test(_)) == Len(SelectSeq(s, Test))

NamingMsgs == {"Pattern ID does not follow kebab-case naming convention"}

FileMsgs == {"Required file missing", "Required file is empty",
             "Required directory missing", "exists but is not a directory"}

ParseMsgs == {"Failed to parse pattern.yaml"}

SchemaMsgs == {"pattern.yaml does not conform to JSON Schema", "schema violation"}

ReferenceMsgs == {"Architecture diagram not found", "Code snippet file not found"}

ReferenceLogMsgs == ReferenceMsgs \cup {"Architecture diagram exists", "Code snippet exists"}

YamlStepMsgs == {"pattern.yaml not found", "JSON Schema not found", "Failed to load JSON Schema"}
                \cup ParseMsgs \cup SchemaMsgs \cup ReferenceMsgs

ReadmeLogMsgs == {"README.md seems too short", "README.md is missing recommended sections",
                  "README.md has adequate content"}

ErrorsIn(msgs) == LET In(e) == e.msg \in msgs IN SelectSeq(errors, In)

LoggedIn(msgs) == LET In(e) == e.msg \in msgs IN SelectSeq(console, In)

WarningsIn(msgs) == LET In(e) == e.msg \in msgs IN SelectSeq(warnings, In)

\* the record that the schema check receives, when pattern.yaml could be loaded
Loaded == LoadYaml(yamlFile, yamlContent)

ParsedOk == ExistsSync(yamlFile) /\ Loaded.ok

SchemaChecked == ParsedOk /\ schemaFile = "ok"

(***************************************************************************)
(* C1.  validate returns 1 (FAIL) exactly when at least one error was      *)
(* recorded; with no error it returns 0 (PASS) whatever the number of      *)
(* warnings.  The only runs that do not return are those in which          *)
(* README.md is a directory and reading it raises.                         *)
(***************************************************************************)
C1_StatusIffErrors ==
    /\ Returned => /\ result \in {0, 1}
                   /\ result = 1 <=> Len(errors) > 0
                   /\ result = 0 <=> Len(errors) = 0
    /\ pc = "threw" => IsDirectory(readmeFile)
    /\ ~Returned => result = "none"

C1_Witness == Returned /\ result = 0 /\ Len(errors) = 0 /\ Len(warnings) > 0

(***************************************************************************)
(* C2.  The naming check records no error for a name made of one or more   *)
(* runs of lower-case letters and digits separated by single hyphens, and  *)
(* exactly one naming error for every other name.                          *)
(***************************************************************************)
KebabShape(s) ==
    /\ Len(s) > 0
    /\ \A i \in 1..Len(s) : s[i] \in LowerAlnum \cup {"-"}
    /\ s[1] # "-"
    /\ s[Len(s)] # "-"
    /\ \A i \in 1..(Len(s) - 1) : ~(s[i] = "-" /\ s[i + 1] = "-")

C2_NamingCheck ==
    Past("validatePatternId") =>
        /\ Len(ErrorsIn(NamingMsgs)) = (IF KebabShape(patternId) THEN 0 ELSE 1)
        /\ \A i \in 1..Len(ErrorsIn(NamingMsgs)) : ErrorsIn(NamingMsgs)[i].arg = patternId

C2_Witness ==
    /\ Past("validatePatternId")
    /\ patternId = <<"a", "-", "-", "0">>
    /\ Len(ErrorsIn(NamingMsgs)) = 1

(***************************************************************************)
(* C3.  The required-file check records exactly one error for each of      *)
(* pattern.yaml, README.md and diagrams/ that is missing, empty or of the  *)
(* wrong type, and none for an item that is present, non-empty and of the  *)
(* right type.                                                             *)
(***************************************************************************)
BadFileItem(f) == ~ExistsSync(f) \/ f.kind # "file" \/ StatSize(f) = 0

BadDirItem(d) == ~ExistsSync(d) \/ ~IsDirectory(d)

ItemErrors(name) == LET Names_(e) == e.msg \in FileMsgs /\ e.arg = <<name>> IN Count(errors, Names_)

C3_OneErrorPerBadItem ==
    Past("validateRequiredFiles") =>
        /\ ItemErrors("pattern.yaml") = (IF BadFileItem(yamlFile) THEN 1 ELSE 0)
        /\ ItemErrors("README.md") = (IF BadFileItem(readmeFile) THEN 1 ELSE 0)
        /\ ItemErrors("diagrams") = (IF BadDirItem(diagramsDir) THEN 1 ELSE 0)

(***************************************************************************)
(* C4.  When the schema check runs on a parsed record from which N         *)
(* required properties are absent, it records at least N errors and each   *)
(* absent property is named in one of them: a top-level property as the    *)
(* field of the error, a property of author under the path /author.        *)
(***************************************************************************)
RemovedTop == IF Loaded.data.isObject THEN Range(RequiredFields) \ Loaded.data.present ELSE {}

RemovedAuthor ==
    IF Loaded.data.isObject /\ "author" \in Loaded.data.present
    THEN (IF Loaded.data.authorName THEN {} ELSE {"name"})
         \cup (IF Loaded.data.authorEmail = "absent" THEN {"email"} ELSE {})
    ELSE {}

SchemaViolationErrors == ErrorsIn({"schema violation"})

C4_AllMissingFieldsReported ==
    (Past("validatePatternYaml") /\ SchemaChecked /\ Loaded.data.isObject) =>
        /\ Len(SchemaViolationErrors) >= Cardinality(RemovedTop) + Cardinality(RemovedAuthor)
        /\ \A f \in RemovedTop :
              \E i \in 1..Len(SchemaViolationErrors) : SchemaViolationErrors[i].arg[1] = f
        /\ \A f \in RemovedAuthor :
              \E i \in 1..Len(SchemaViolationErrors) :
                  /\ SchemaViolationErrors[i].arg[1] = "/author"
                  /\ SchemaViolationErrors[i].arg[3] = f

C4_Witness ==
    /\ Past("validatePatternYaml")
    /\ SchemaChecked
    /\ RemovedTop = {"title", "tags", "use_case"}
    /\ RemovedAuthor = {"email"}
    /\ Len(SchemaViolationErrors) >= 4

(***************************************************************************)
(* C5.  As stated: when the parsed record violates the schema in k >= 1    *)
(* ways, the schema check adds exactly k errors.                           *)
(***************************************************************************)
Violations == SchemaViolations(Loaded.data)

C5_Original_ExactlyKErrors ==
    (Past("validatePatternYaml") /\ SchemaChecked /\ Len(Violations) >= 1) =>
        Len(ErrorsIn(YamlStepMsgs)) = Len(Violations)

(***************************************************************************)
(* C5, amended.  When the parsed record violates the schema in k >= 1      *)
(* ways, the schema check adds exactly k + 1 errors: first one error       *)
(* saying that pattern.yaml does not conform to the schema, then one error *)
(* per violation, in order, carrying the violation's field (its instance   *)
(* path, else the missing property, else "root") and its message.          *)
(***************************************************************************)
C5_HeaderPlusOnePerViolation ==
    (Past("validatePatternYaml") /\ SchemaChecked /\ Len(Violations) >= 1) =>
        LET added == ErrorsIn(YamlStepMsgs) IN
        /\ Len(added) = Len(Violations) + 1
        /\ added[1].msg = "pattern.yaml does not conform to JSON Schema"
        /\ \A i \in 1..Len(Violations) :
              /\ added[i + 1].msg = "schema violation"
              /\ Tail(added[i + 1].arg) = Violations[i].message
              /\ added[i + 1].arg[1] \in
                    {Violations[i].instancePath, Violations[i].missingProperty, "root"} \ {""}
              /\ Violations[i].instancePath # "" => added[i + 1].arg[1] = Violations[i].instancePath

C5_Witness ==
    /\ Past("validatePatternYaml")
    /\ SchemaChecked
    /\ Len(Violations) = 3
    /\ Len(ErrorsIn(YamlStepMsgs)) = 4
    /\ Loaded.data.category = "bogus"

(***************************************************************************)
(* C6.  When pattern.yaml exists but cannot be parsed, the schema step     *)
(* records exactly one error, the parse error, and runs neither the schema *)
(* validation nor the reference check: it logs nothing else.               *)
(***************************************************************************)
C6_ParseFailureIsSingleError ==
    (Past("validatePatternYaml") /\ ExistsSync(yamlFile) /\ ~Loaded.ok) =>
        /\ Len(ErrorsIn(YamlStepMsgs)) = 1
        /\ ErrorsIn(YamlStepMsgs)[1].msg = "Failed to parse pattern.yaml"
        /\ LoggedIn(SchemaMsgs \cup ReferenceLogMsgs
                    \cup {"pattern.yaml conforms to JSON Schema", "pattern.yaml is valid YAML format",
                          "JSON Schema not found", "Failed to load JSON Schema"}) = <<>>

C6_Witness ==
    /\ Past("validatePatternYaml")
    /\ yamlFile = PlainFile
    /\ yamlContent = Unparseable
    /\ Len(ErrorsIn(ParseMsgs)) = 1

(***************************************************************************)
(* C7.  As stated: for an entry whose name and required files are in order *)
(* but whose pattern.yaml is unparseable, the verdict is FAIL with exactly *)
(* one error and neither the reference check nor the documentation check   *)
(* is executed, so the run produces no warning.                            *)
(***************************************************************************)
EntryInOrder ==
    /\ KebabShape(patternId)
    /\ ~BadFileItem(yamlFile)
    /\ ~BadFileItem(readmeFile)
    /\ ~BadDirItem(diagramsDir)

C7_Original_NoDocumentationCheck ==
    (Returned /\ EntryInOrder /\ ~Loaded.ok) =>
        /\ result = 1
        /\ Len(errors) = 1
        /\ LoggedIn(ReferenceLogMsgs) = <<>>
        /\ LoggedIn(ReadmeLogMsgs) = <<>>
        /\ warnings = <<>>

(***************************************************************************)
(* C7, amended.  For such an entry the verdict is FAIL with exactly one    *)
(* error, the parse error, and the reference check is not executed; the    *)
(* documentation check is still executed and its warnings are part of the  *)
(* run: a README shorter than the minimum gets the too-short warning, any  *)
(* other README is examined for its sections.                              *)
(***************************************************************************)
C7_ParseFailureStillChecksReadme ==
    (Returned /\ EntryInOrder /\ ~Loaded.ok) =>
        /\ result = 1
        /\ Len(errors) = 1
        /\ errors[1].msg = "Failed to parse pattern.yaml"
        /\ LoggedIn(ReferenceLogMsgs) = <<>>
        /\ LoggedIn(ReadmeLogMsgs) # <<>>
        /\ readmeContent.len < minLength <=> Len(WarningsIn({"README.md seems too short"})) = 1
        /\ readmeContent.len >= minLength <=> Len(LoggedIn({"README.md has adequate content"})) = 1

C7_Witness ==
    /\ Returned
    /\ EntryInOrder
    /\ yamlContent = Unparseable
    /\ Len(errors) = 1
    /\ Len(warnings) = 1
    /\ warnings[1].msg = "README.md is missing recommended sections"

(***************************************************************************)
(* C8.  For a record that parses and conforms to the schema, the reference *)
(* check records exactly one error per missing target among                *)
(* architecture_diagram and the code_snippets files: m missing targets     *)
(* yield m errors, and one dangling reference yields one error and FAIL.   *)
(***************************************************************************)
Conforms == SchemaChecked /\ Violations = <<>>

MissingTargets ==
    LET data == Loaded.data
        Dangling(p) == ~PathExists(p, diagramsDir)
    IN  (IF data.architecture_diagram # "" /\ Dangling(data.architecture_diagram) THEN 1 ELSE 0)
        + Count(data.code_snippets, Dangling)

C8_OneErrorPerMissingTarget ==
    /\ (Past("validatePatternYaml") /\ Conforms) =>
            Len(ErrorsIn(ReferenceMsgs)) = MissingTargets
    /\ (Returned /\ Conforms /\ MissingTargets = 1) => result = 1

(***************************************************************************)
(* C9.  As stated: the reference check is performed whenever pattern.yaml  *)
(* parsed, also when the record violates the schema; a record with a       *)
(* schema violation and a dangling reference gets the schema errors and    *)
(* the reference error in the same run.                                    *)
(***************************************************************************)
C9_Original_ReferencesCheckedAfterViolations ==
    (Past("validatePatternYaml") /\ SchemaChecked /\ Loaded.data.isObject
        /\ Violations # <<>> /\ MissingTargets >= 1) =>
        /\ ErrorsIn(SchemaMsgs) # <<>>
        /\ ErrorsIn(ReferenceMsgs) # <<>>

(***************************************************************************)
(* C9, amended.  The reference check is performed only when pattern.yaml   *)
(* parsed, the schema was loaded and the record conforms to it; a record   *)
(* with a schema violation gets the schema errors and no reference is      *)
(* examined in that run, dangling or not.  A conforming record that holds  *)
(* a reference has it examined.                                            *)
(***************************************************************************)
HasReference ==
    Loaded.data.architecture_diagram # "" \/ Loaded.data.code_snippets # <<>>

C9_ReferencesCheckedOnlyIfConforming ==
    Past("validatePatternYaml") =>
        /\ LoggedIn(ReferenceLogMsgs) # <<>> <=> (Conforms /\ HasReference)
        /\ (SchemaChecked /\ Violations # <<>>) =>
                /\ ErrorsIn(SchemaMsgs) # <<>>
                /\ ErrorsIn(ReferenceMsgs) = <<>>

C9_Witness ==
    /\ Past("validatePatternYaml")
    /\ SchemaChecked
    /\ Loaded.data.isObject
    /\ Len(Violations) = 1
    /\ MissingTargets = 2
    /\ Len(ErrorsIn(SchemaMsgs)) = 2
    /\ ErrorsIn(ReferenceMsgs) = <<>>

(***************************************************************************)
(* C10.  As stated: the documentation check warns when README.md is        *)
(* shorter than 100 characters and, whatever the length, warns exactly     *)
(* once listing all and only the recommended headings that do not occur in *)
(* it, in any letter case; a README that is too short and lacks headings   *)
(* gets both warnings.                                                     *)
(***************************************************************************)
\* the words of the model in which a heading occurs, whatever the letter case
OccursIn(section) ==
    CASE section = "Overview" -> {"## overview"}
      [] section = "Architecture" -> {"ARCHITECTURE"}
      [] section = "Implementation" -> {"Implementation"}
      [] section = "Prerequisites" -> {"PreRequisites"}

LackedHeadings ==
    LET Lacked(section) == OccursIn(section) \cap readmeContent.mentions = {}
    IN  SelectSeq(recommendedSections, Lacked)

ReadmeRead == Past("validateReadme") /\ readmeFile.kind = "file"

SectionWarnings == WarningsIn({"README.md is missing recommended sections"})

ShortWarnings == WarningsIn({"README.md seems too short"})

C10_Original_IndependentConditions ==
    ReadmeRead =>
        /\ Len(ShortWarnings) = (IF readmeContent.len < 100 THEN 1 ELSE 0)
        /\ Len(SectionWarnings) = (IF LackedHeadings # <<>> THEN 1 ELSE 0)
        /\ LackedHeadings # <<>> => SectionWarnings[1].arg = LackedHeadings

(***************************************************************************)
(* C10, amended.  The documentation check warns when README.md is shorter  *)
(* than 100 characters and then examines nothing else; only a README of at *)
(* least 100 characters is examined for the recommended headings, and it   *)
(* gets exactly one warning listing all and only the headings that do not  *)
(* occur in it, in any letter case, or none when all occur.  No README     *)
(* gets both warnings.                                                     *)
(***************************************************************************)
C10_SectionsOnlyIfLongEnough ==
    ReadmeRead =>
        /\ Len(ShortWarnings) = (IF readmeContent.len < 100 THEN 1 ELSE 0)
        /\ Len(SectionWarnings) =
              (IF readmeContent.len >= 100 /\ LackedHeadings # <<>> THEN 1 ELSE 0)
        /\ SectionWarnings # <<>> => SectionWarnings[1].arg = LackedHeadings
        /\ Len(warnings) <= 1

C10_Witness ==
    /\ ReadmeRead
    /\ readmeContent = [len |-> 99, mentions |-> {"ARCHITECTURE"}]
    /\ Len(ShortWarnings) = 1
    /\ SectionWarnings = <<>>

(***************************************************************************)
(* C11.  Happy path: an entry with a kebab-case name, non-empty            *)
(* pattern.yaml and README.md, a diagrams/ directory, schema-valid         *)
(* metadata of category automation whose referenced files all exist, and   *)
(* a README of at least 100 characters that mentions the four recommended  *)
(* sections gets PASS with no error and no warning, and the notifier run   *)
(* on it assigns exactly the automation reviewers of the mapping.          *)
(***************************************************************************)
HappyEntry ==
    /\ EntryInOrder
    /\ Conforms
    /\ Loaded.data.isObject
    /\ Loaded.data.category = "automation"
    /\ Loaded.data.architecture_diagram # ""
    /\ MissingTargets = 0
    /\ readmeContent.len >= 100
    /\ LackedHeadings = <<>>

AutomationReviewers == <<"automation-sme1", "automation-sme2">>

C11_HappyPath ==
    HappyEntry =>
        /\ Returned => result = 0 /\ errors = <<>> /\ warnings = <<>>
        /\ pc # "threw"
        /\ output.kind # "none" =>
              /\ output.kind = "value"
              /\ Len(patterns) = 1
              /\ patterns[1].directory = patternDir
              /\ patterns[1].category = "automation"
              /\ patterns[1].reviewers = AutomationReviewers
              /\ output.reviewers = AutomationReviewers

C11_Witness ==
    /\ HappyEntry
    /\ Returned
    /\ result = 0
    /\ output.kind = "value"
    /\ patterns[1].reviewers = AutomationReviewers
    /\ Loaded.data.code_snippets # <<>>

(***************************************************************************)
(* Vocabulary of the routing claims.  The category that an entry states is *)
(* read off its pattern.yaml: a non-empty string under the key category of *)
(* a file that exists and parses to a mapping; every other entry states    *)
(* none.                                                                   *)
(***************************************************************************)
StatesCategory(dir) ==
    LET e == EntryOf(dir) IN
    /\ ExistsSync(e.file)
    /\ LoadYaml(e.file, e.content).ok
    /\ LoadYaml(e.file, e.content).data.isObject
    /\ "category" \in LoadYaml(e.file, e.content).data.present
    /\ LoadYaml(e.file, e.content).data.category # ""

StatedCategory(dir) == LoadYaml(EntryOf(dir).file, EntryOf(dir).content).data.category

Recognized(dir) == StatesCategory(dir) /\ StatedCategory(dir) \in SmeKeys

MappingReviewers(category) == SME_MAPPING[category].reviewers

\* the kinds of entry of the routing claims
EntryKinds == {"missing", "unparseable", "empty", "no category", "unrecognized", "recognized"}

KindOf(dir) ==
    LET e == EntryOf(dir) IN
    IF ~ExistsSync(e.file) THEN "missing"
    ELSE IF StatSize(e.file) = 0 /\ ~IsDirectory(e.file) THEN "empty"
    ELSE IF ~LoadYaml(e.file, e.content).ok THEN "unparseable"
    ELSE IF ~StatesCategory(dir) THEN "no category"
    ELSE IF Recognized(dir) THEN "recognized"
    ELSE "unrecognized"

(***************************************************************************)
(* C12.  Routing is total: every directory passed to processPatterns,      *)
(* whatever the state of its pattern.yaml, has exactly one recorded        *)
(* assignment, in the order passed, with a non-empty reviewer list: the    *)
(* list of the mapping when its category is recognized, the fallback list  *)
(* otherwise.                                                              *)
(***************************************************************************)
C12_RoutingTotal ==
    /\ Directories(patterns) = passedDirs
    /\ \A i \in 1..Len(patterns) :
          /\ patterns[i].reviewers # <<>>
          /\ Recognized(patterns[i].directory) =>
                patterns[i].reviewers = MappingReviewers(StatedCategory(patterns[i].directory))
          /\ ~Recognized(patterns[i].directory) => patterns[i].reviewers = FALLBACK_REVIEWERS

C12_Witness ==
    /\ Len(patterns) = 2
    /\ KindOf(patterns[1].directory) = "unrecognized"
    /\ patterns[1].reviewers = FALLBACK_REVIEWERS
    /\ KindOf(patterns[2].directory) = "recognized"
    /\ patterns[2].reviewers = MappingReviewers("security")
    /\ \A k \in EntryKinds : \E d \in NotifyDirs : KindOf(d) = k

(***************************************************************************)
(* C13.  As stated: the resolved category of an assignment is "unknown"    *)
(* whenever the entry states no category or one that is not a key of the   *)
(* mapping, and no section of the report is labelled with an unrecognized  *)
(* category string.                                                        *)
(***************************************************************************)
SectionLabels(comment) ==
    {comment.lines[i].a[3] : i \in {j \in 1..Len(comment.lines) : comment.lines[j].t = "section"}}

Reports == {commentCalls[i] : i \in {j \in 1..Len(commentCalls) : commentCalls[j].kind = "text"}}

CallsAgree == \A i, j \in 1..Len(commentCalls) : commentCalls[i] = commentCalls[j]

RunsAgree ==
    (prevRun.kind = "run" /\ Directories(patterns) = prevRun.dirs /\ commentCalls # <<>>)
        => commentCalls[1] = prevRun.comment

CommentLeavesNotifier ==
    GenerateComment => UNCHANGED <<patterns, allReviewers, categoryReviewers, output, ghOutput>>

SectionStarts(lines) == {i \in 1..Len(lines) : lines[i].t = "section"}

SectionEnd(lines, start) ==
    CHOOSE e \in start..Len(lines) :
        /\ lines[e].t = "blank"
        /\ \A k \in start..(e - 1) : lines[k].t # "blank"

SectionBody(lines, start) == SubSeq(lines, start, SectionEnd(lines, start))

Mentions(body) ==
    UNION {Range(body[i].a) : i \in {j \in 1..Len(body) : body[j].t = "reviewers"}}

Listed(body) == LET IsItem(l) == l.t = "pattern" IN SelectSeq(body, IsItem)

Label(body) == body[1].a[3]

\* the groups of the notifier: the resolved categories of its assignments
Groups == {patterns[i].category : i \in 1..Len(patterns)}

AssignedIn(category) ==
    UNION {Range(patterns[i].reviewers) :
              i \in {j \in 1..Len(patterns) : patterns[j].category = category}}

EntriesIn(category) ==
    {patterns[i].directory : i \in {j \in 1..Len(patterns) : patterns[j].category = category}}

\* the label under which a group is shown: the description of the mapping, else its own name
LabelOf(category) ==
    IF category \in SmeKeys THEN SME_MAPPING[category].description ELSE category

\* the section of a group in a report
SectionsOf(lines, category) ==
    {start \in SectionStarts(lines) : Label(SectionBody(lines, start)) = LabelOf(category)}

(***************************************************************************)
(* C15.  Every category section of a report holds the label of the group,  *)
(* the mentions of all the reviewers assigned to the entries of the group  *)
(* and the list of the entries of the group; the section of the "unknown"  *)
(* group mentions the fallback reviewers.                                  *)
(***************************************************************************)
C15_SectionsMentionReviewers ==
    \A r \in Reports : \A g \in Groups :
        /\ SectionsOf(r.lines, g) # {}
        /\ \A start \in SectionsOf(r.lines, g) :
              LET body == SectionBody(r.lines, start) IN
              /\ AssignedIn(g) \subseteq Mentions(body)
              /\ {Listed(body)[i].d : i \in 1..Len(Listed(body))} = EntriesIn(g)

(***************************************************************************)
(* C16.  The reviewer list that generateOutput emits is the union of the   *)
(* reviewer lists of all recorded assignments, those of entries without    *)
(* category included, without duplicate and in the order of first          *)
(* appearance.                                                             *)
(***************************************************************************)
RECURSIVE FirstAppearances(_, _)
FirstAppearances(ps, seen) ==
    IF ps = <<>> THEN seen
    ELSE FirstAppearances(Tail(ps), SetAddAll(seen, Head(ps).reviewers))

C16_AggregateIsUnion ==
    output.kind = "value" => output.reviewers = FirstAppearances(output.patterns, <<>>)

(***************************************************************************)
(* C17.  A report has exactly one section per resolved category and lists  *)
(* every entry exactly once, in exactly one section, however often its     *)
(* directory was passed to processPatterns.                                *)
(***************************************************************************)
ListedIn(lines, dir) == {i \in 1..Len(lines) : lines[i].t = "pattern" /\ lines[i].d = dir}

OneSectionPerCategory(r) ==
    /\ Cardinality(SectionStarts(r.lines)) = Cardinality(Groups)
    /\ \A g \in Groups : Cardinality(SectionsOf(r.lines, g)) = 1

C17_EachEntryOnce ==
    \A r \in Reports :
        /\ OneSectionPerCategory(r)
        /\ \A d \in Range(passedDirs) : Cardinality(ListedIn(r.lines, d)) = 1

(***************************************************************************)
(* Vocabulary of the change detection claims.                              *)
(***************************************************************************)
FirstSegment(path) == Cut(path)

AtRoot(path) == "/" \notin Range(path)

\* a first segment that the denylist names: .github, schemas and pattern-template as they
\* are, and every name that starts with LICENSE or with a dot
Denylisted(segment) ==
    \/ segment \in RepositoryDirs
    \/ StartsWith(segment, License)
    \/ StartsWith(segment, Dot)

\* the entries that the changed paths call for
ChangedEntries ==
    {FirstSegment(path) : path \in {q \in changed : ~AtRoot(q)}}
        \ {segment \in headDirs \cup DirPool \cup {FirstSegment(q) : q \in changed} :
              Denylisted(segment) \/ segment \notin headDirs}

Succeeded == step \in Ended /\ exitStatus = 0

\* the entries and the count that the script gave out
Emitted == detectOutput[1].value

EmittedCount == detectOutput[2].count

(***************************************************************************)
(* C18.  Change detection returns exactly the first path segments of the   *)
(* changed paths that are not denylisted and are directories at the head   *)
(* revision, each once and in ascending order; a changed file at the root  *)
(* of the repository contributes no entry.                                 *)
(***************************************************************************)
C18_ExactlyFirstSegments ==
    Succeeded =>
        /\ Emitted = SortU(ChangedEntries)
        /\ EmittedCount = Cardinality(ChangedEntries)
        /\ \A path \in changed : AtRoot(path) => path \notin Range(Emitted)

(***************************************************************************)
(* C19.  When the diff holds no changed file, and whenever no candidate is *)
(* left by the filters or by the directory test, change detection ends     *)
(* with status 0 and gives out the empty list with count 0; once the diff  *)
(* is computed the script never ends with a failure.                       *)
(***************************************************************************)
Diffed == step \notin {"start", "fetched"} /\ gitStatus = 0

NothingLeft == changed = {} \/ PATTERN_DIRS = <<>> \/ VALID_PATTERN_DIRS = <<>>

C19_EmptyResultSucceeds ==
    (step \in Ended /\ Diffed) =>
        /\ exitStatus = 0
        /\ NothingLeft => detectOutput = EmptyResult

C19_Witness ==
    /\ Succeeded
    /\ changed # {}
    /\ PATTERN_DIRS # <<>>
    /\ VALID_PATTERN_DIRS = <<>>
    /\ detectOutput = EmptyResult

(***************************************************************************)
(* C20.  Every changed path whose first segment is denylisted is excluded, *)
(* however deep the changed file lies: no entry that change detection      *)
(* gives out is a denylisted name.                                         *)
(***************************************************************************)
C20_NoDenylistedEntry ==
    Succeeded => \A i \in 1..Len(Emitted) : ~Denylisted(Emitted[i])

(***************************************************************************)
(* C21.  When git fetch or git diff fails, change detection ends at that   *)
(* command with the non-zero status of git and has written no line to      *)
(* $GITHUB_OUTPUT: neither changed_patterns nor pattern_count, and so no   *)
(* empty entry list in place of the failure.                               *)
(***************************************************************************)
C21_GitFailureAborts ==
    gitStatus # 0 =>
        /\ step \in {"ended at fetch", "ended at diff"}
        /\ exitStatus = gitStatus
        /\ exitStatus # 0
        /\ detectOutput = <<>>

C21_Witness ==
    /\ gitStatus = 128
    /\ step = "ended at diff"
    /\ changed # {}
    /\ exitStatus = 128
    /\ detectOutput = <<>>

(***************************************************************************)
(* C22.  As stated: the validate command exits with 0 on PASS, with 1 on   *)
(* FAIL, and with a code that is neither for a fatal error (no argument, a *)
(* path that is missing or no directory, an exception that validate        *)
(* raised).                                                                *)
(***************************************************************************)
Exited == pc \in {"exited", "exited in main", "exited in catch"}

Fatal == pc \in {"exited in main", "exited in catch"}

VerdictCodes ==
    /\ (pc = "exited" /\ result = 0) => exitCode = 0
    /\ (pc = "exited" /\ result = 1) => exitCode = 1
    /\ pc = "exited" => argv = "dir"

SchemaFileMsgs == {"JSON Schema not found", "Failed to load JSON Schema"}

SchemaLooked == ParsedOk /\ Past("validatePatternYaml")

AloneEvents ==
    validatePatternId(patternDir)
        \o validateRequiredFiles(yamlFile, readmeFile, diagramsDir)
        \o validatePatternYaml(yamlFile, yamlContent, schemaFile, diagramsDir)
        \o validateReadme(readmeFile, readmeContent)

C24_VerdictsIndependent ==
    Returned =>
        /\ errors = ErrorsOf(AloneEvents)
        /\ warnings = WarningsOf(AloneEvents)
        /\ result = (IF ErrorsOf(AloneEvents) = <<>> THEN 0 ELSE 1)

(***************************************************************************)
(* C25.  validate executes the naming, required-file, schema and           *)
(* documentation phases in that order whatever the earlier phases found,   *)
(* and the errors and the warnings of the verdict are in phase order.      *)
(***************************************************************************)
Headings ==
    <<"Step 1: Validating Pattern ID", "Step 2: Checking Required Files",
      "Step 3: Validating pattern.yaml", "Step 4: Validating README.md">>

PhaseMsgs(k) ==
    {Headings[k]} \cup
    CASE k = 1 -> NamingMsgs \cup {"Pattern ID follows naming conventions"}
      [] k = 2 -> FileMsgs \cup {"Required file exists", "Required directory exists"}
      [] k = 3 -> YamlStepMsgs \cup ReferenceLogMsgs
                    \cup {"pattern.yaml is valid YAML format", "pattern.yaml conforms to JSON Schema"}
      [] k = 4 -> ReadmeLogMsgs

PhaseOf(m) == CHOOSE k \in 1..4 : m.msg \in PhaseMsgs(k)

InPhaseOrder(seq) ==
    /\ \A i \in 1..Len(seq) : \E k \in 1..4 : seq[i].msg \in PhaseMsgs(k)
    /\ \A i \in 1..(Len(seq) - 1) : PhaseOf(seq[i]) <= PhaseOf(seq[i + 1])

HeadingsLogged == LET IsHeading(m) == m.level = "log" IN SelectSeq(console, IsHeading)

C25_PhasesInOrder ==
    /\ InPhaseOrder(console)
    /\ InPhaseOrder(errors)
    /\ InPhaseOrder(warnings)
    /\ \A k \in 1..4 : Len(HeadingsLogged) >= k => HeadingsLogged[k].msg = Headings[k]
    /\ Len(HeadingsLogged) = (IF pc \in {"summary", "done", "threw"} THEN 4 ELSE PcOrder[pc] - 1)

C25_Witness ==
    /\ Returned
    /\ Len(ErrorsIn(NamingMsgs)) = 1
    /\ Len(ErrorsIn(FileMsgs)) >= 2
    /\ Len(ErrorsIn({"pattern.yaml not found"})) = 1
    /\ Len(warnings) = 1
    /\ errors[1].msg \in NamingMsgs
    /\ errors[Len(errors)].msg = "pattern.yaml not found"

(***************************************************************************)
(* C26.  A PASS verdict implies that every path that the record references *)
(* (architecture_diagram and each code_snippets file) is an existing       *)
(* regular file below the entry directory; a reference that names a        *)
(* directory is never accepted.                                            *)
(***************************************************************************)
References ==
    (IF Loaded.data.architecture_diagram # "" THEN {Loaded.data.architecture_diagram} ELSE {})
        \cup Range(Loaded.data.code_snippets)

RegularFileBelowEntry(p) == p \in entryFiles /\ (InDiagrams(p) => IsDirectory(diagramsDir))

C26_PassImpliesRegularFiles ==
    (Returned /\ result = 0) => \A p \in References : RegularFileBelowEntry(p)

(***************************************************************************)
(* C27.  When pattern.yaml is missing from an entry that is otherwise in   *)
(* order, the returned verdict holds exactly one error about the missing   *)
(* metadata file: step 3 does not report the file that step 2 reported.    *)
(***************************************************************************)
AboutMissingYaml(e) ==
    \/ e.msg = "Required file missing" /\ e.arg = <<"pattern.yaml">>
    \/ e.msg = "pattern.yaml not found"

OnlyYamlMissing ==
    /\ KebabShape(patternId)
    /\ ~ExistsSync(yamlFile)
    /\ ~BadFileItem(readmeFile)
    /\ ~BadDirItem(diagramsDir)

C27_MissingYamlReportedOnce ==
    (Returned /\ OnlyYamlMissing) => Count(errors, AboutMissingYaml) = 1

(***************************************************************************)
(* C28.  For every non-empty list of processed entries generateComment     *)
(* returns report text and raises no error, whatever the categories of     *)
(* the entries; a category that is no own key of SME_MAPPING, the name of  *)
(* an inherited property included, gets the fallback reviewers in the      *)
(* lookup and a section without a reviewer line in the report.             *)
(***************************************************************************)
NotOwnKey(dir) == StatesCategory(dir) /\ StatedCategory(dir) \notin SmeKeys

NoReviewerLine(lines, category) ==
    \A start \in SectionsOf(lines, category) : Mentions(SectionBody(lines, start)) = {}

C28_CommentNeverRaises ==
    patterns # <<>> =>
        /\ \A i \in 1..Len(commentCalls) : commentCalls[i].kind = "text"
        /\ \A j \in 1..Len(patterns) :
              NotOwnKey(patterns[j].directory) =>
                  /\ patterns[j].reviewers = FALLBACK_REVIEWERS
                  /\ \A r \in Reports : NoReviewerLine(r.lines, patterns[j].category)

(***************************************************************************)
(* C29.  A PASS verdict is sound: when validate returns 0 the name of the  *)
(* entry is kebab-case, pattern.yaml and README.md exist and are not       *)
(* empty, diagrams/ is a directory, pattern.yaml was parsed, the schema    *)
(* document was found and loaded, the record conforms to it and every      *)
(* referenced diagram and code-snippet path exists; a step that fails      *)
(* records an error.                                                       *)
(***************************************************************************)
Pass == Returned /\ result = 0

C29_PassIsSound ==
    Pass =>
        /\ KebabShape(patternId)
        /\ ExistsSync(yamlFile) /\ StatSize(yamlFile) > 0
        /\ ExistsSync(readmeFile) /\ StatSize(readmeFile) > 0
        /\ ExistsSync(diagramsDir) /\ IsDirectory(diagramsDir)
        /\ ParsedOk
        /\ schemaFile = "ok"
        /\ Conforms
        /\ MissingTargets = 0
        /\ errors = <<>>

C29_Witness ==
    /\ Pass
    /\ Loaded.data.architecture_diagram # ""
    /\ Loaded.data.code_snippets # <<>>
    /\ Len(warnings) = 1

(***************************************************************************)
(* C30.  Every entry that change detection emits is one top-level path     *)
(* segment: a changed file patterns/<name>/<file> yields the entry         *)
(* "patterns" and never "patterns/<name>", and all the changes below one   *)
(* top-level directory leave one candidate.                                *)
(***************************************************************************)
PatternsDir == <<"p", "a", "t", "t", "e", "r", "n", "s">>

BelowPatterns == {path \in changed : ~AtRoot(path) /\ FirstSegment(path) = PatternsDir}

OneSegment(entry) == "/" \notin Range(entry)

====
